---------------------------- MODULE Spec2Model ----------------------------
(***************************************************************************)
(* cargo-feature-aspect: propagation of a feature aspect through the       *)
(* dependency graph of a workspace (src/src/main.rs).                      *)
(*                                                                         *)
(* Strings are sequences of byte values, so that format!, split_once,      *)
(* starts_with and the lexicographic order of str are computed as Rust     *)
(* computes them.                                                          *)
(***************************************************************************)
EXTENDS Integers, Sequences, FiniteSets, TLC

(***************************************************************************)
(* Bounds of the model.                                                    *)
(***************************************************************************)
\* longest dependency list of a package
MaxDeps == 2
\* longest aspect array a manifest holds before the first run
MaxArr == 2
\* most --add-feature-param arguments on a command line
MaxExtra == 2

(***************************************************************************)
(* String literals (byte sequences).                                       *)
(***************************************************************************)
S_a == <<97>>
S_b == <<98>>
S_c == <<99>>
S_e == <<101>>
S_k == <<107>>
S_x == <<120>>
S_y == <<121>>
S_z == <<122>>
S_slash == <<47>>
S_qslash == <<63, 47>>
S_dep == <<100, 101, 112>>
S_depcolon == <<100, 101, 112, 58>>
Ch_colon == S_depcolon[4]
Ch_slash == S_slash[1]

(***************************************************************************)
(* Helpers over sequences and strings.                                     *)
(***************************************************************************)
Range(s) == {s[i] : i \in 1..Len(s)}

Contains(s, e) == \E i \in 1..Len(s) : s[i] = e

\* Iterator::position: index of the first element equal to e, 0 for None
Position(s, e) ==
    IF Contains(s, e) THEN CHOOSE i \in 1..Len(s) : s[i] = e /\ \A j \in 1..(i-1) : s[j] # e
    ELSE 0

\* Vec::retain(|p| !other.contains(p))
RetainNotIn(s, other) == SelectSeq(s, LAMBDA e : ~Contains(other, e))

\* Vec::retain(|p| other.contains(p))
RetainIn(s, other) == SelectSeq(s, LAMBDA e : Contains(other, e))

\* Vec::remove(idx) for a valid 1-based index
RemoveAt(s, i) == SubSeq(s, 1, i-1) \o SubSeq(s, i+1, Len(s))

\* str::starts_with
StartsWith(s, prefix) ==
    Len(s) >= Len(prefix) /\ SubSeq(s, 1, Len(prefix)) = prefix

\* str::split_once(ch): <<TRUE, prefix, suffix>> or <<FALSE, <<>>, <<>>>> for None
SplitOnce(s, ch) ==
    LET i == Position(s, ch)
    IN  IF i = 0 THEN <<FALSE, <<>>, <<>>>>
        ELSE <<TRUE, SubSeq(s, 1, i-1), SubSeq(s, i+1, Len(s))>>

\* Ord for str: bytewise lexicographic, a strictly less than b
RECURSIVE StrLess(_, _)
StrLess(a, b) ==
    IF b = <<>> THEN FALSE
    ELSE IF a = <<>> THEN TRUE
    ELSE IF a[1] # b[1] THEN a[1] < b[1]
    ELSE StrLess(Tail(a), Tail(b))

\* as SortLess, had sort_key been the text alone
SortLessTextOnly(a, b) == StrLess(a, b)

\* sort_ord(a, b) == Less for sort_key(p) = (!p.starts_with("dep:"), p)
SortLess(a, b) ==
    LET ka == ~StartsWith(a, S_depcolon)
        kb == ~StartsWith(b, S_depcolon)
    IN  IF ka # kb THEN (~ka /\ kb) ELSE StrLess(a, b)

\* insertion of e into a sequence sorted by sort_ord, after its equals (stable)
RECURSIVE InsertOrd(_, _)
InsertOrd(s, e) ==
    IF s = <<>> THEN <<e>>
    ELSE IF SortLess(e, s[1]) THEN <<e>> \o s
    ELSE <<s[1]>> \o InsertOrd(Tail(s), e)

\* slice::sort_by(sort_ord): stable
RECURSIVE SortParams(_)
SortParams(s) ==
    IF s = <<>> THEN <<>>
    ELSE InsertOrd(SortParams(SubSeq(s, 1, Len(s)-1)), s[Len(s)])

\* sequences over S of length at most n
SeqsUpTo(S, n) == UNION {[1..k -> S] : k \in 0..n}

\* first occurrences of s, in order (the `if !v.contains(..) { v.push(..) }` loop)
RECURSIVE Dedup(_)
Dedup(s) ==
    IF s = <<>> THEN <<>>
    ELSE LET d == Dedup(SubSeq(s, 1, Len(s)-1))
         IN  IF Contains(d, s[Len(s)]) THEN d ELSE Append(d, s[Len(s)])

(***************************************************************************)
(* The workspace: the members find_ws_members returns, in that order.      *)
(***************************************************************************)
Pkgs == {S_a, S_b, S_c}
InputOrder == <<S_a, S_b, S_c>>

NoName == <<FALSE, <<>>>>
SomeName(n) == <<TRUE, n>>

Dep(n, o) == [name |-> n, optional |-> o]

VARIABLES
    args,               \* FeatureAspectArgs of the current invocation
    deps,               \* package.dependencies: name -> sequence of [name, optional]
    features,           \* package.features.keys(): name -> sorted sequence of names
    doc,                \* manifest on disk: name -> [present, arr] of features.<aspect>
    packages,           \* the Vec<Package> of run_feature_aspect, as names
    emitted,            \* the nodes topo.nodes() has yielded so far
    pc,                 \* "topo", "visit", "done"
    idx,                \* position of the for loop over packages
    in_scope_packages,  \* ctx.in_scope_packages
    has_changes,        \* ctx.has_changes
    outcome,            \* result of run_feature_aspect
    written,            \* packages whose manifest this run wrote (fs::write)
    reads,              \* packages whose manifest this run read (fs::read_to_string)
    plan,               \* name -> params_to_add as built (wanted) and after filtering
                        \* (add), params_to_remove after filtering (remove)
    run,                \* 1 for the first invocation, 2 for the one after it
    prev,               \* args and outcome of the first invocation
    doc0                \* the manifests as the current invocation found them

vars == <<args, deps, features, doc, packages, emitted, pc, idx, in_scope_packages,
          has_changes, outcome, written, reads, plan, run, prev, doc0>>

(***************************************************************************)
(* create_context (main.rs 157-210).  ok = FALSE is the bail! of line 168. *)
(***************************************************************************)
FeatureNameOf(a) ==
    IF a.name[1] THEN <<TRUE, a.name[2]>>
    ELSE IF Len(a.leaf_features) = 1
         THEN LET sp == SplitOnce(a.leaf_features[1], Ch_slash)
              IN  IF sp[1] THEN <<TRUE, sp[3]>> ELSE <<TRUE, a.leaf_features[1]>>
         ELSE <<FALSE, <<>>>>

UnqualifiedLeafFeatures(a) ==
    Dedup(SelectSeq(a.leaf_features, LAMBDA l : ~SplitOnce(l, Ch_slash)[1]))

QualifiedLeafFeatures(a) ==
    LET q == SelectSeq(a.leaf_features, LAMBDA l : SplitOnce(l, Ch_slash)[1])
    IN  Dedup([i \in 1..Len(q) |-> <<SplitOnce(q[i], Ch_slash)[2], SplitOnce(q[i], Ch_slash)[3]>>])

CreateContext(a) ==
    [ok |-> FeatureNameOf(a)[1],
     feature_name |-> FeatureNameOf(a)[2],
     extra_feature_params |-> a.add_feature_params,
     dry_run |-> a.dry_run,
     verify |-> a.verify,
     sort |-> ~a.no_sort,
     unqualified_leaf_features |-> UnqualifiedLeafFeatures(a),
     qualified_leaf_features |-> QualifiedLeafFeatures(a)]

\* the immutable part of the Context of the current invocation
Ctx == CreateContext(args)

(***************************************************************************)
(* topo_sort_packages (main.rs 212-238).  topo.insert builds the map of    *)
(* each node to the set of its dependency names; topo.nodes() yields a     *)
(* node once every dependency of it that is itself a node has been         *)
(* yielded, in the arbitrary order of a HashMap, and yields Err when nodes *)
(* are left and none can be yielded.                                       *)
(***************************************************************************)
NodeDepends(p) == {deps[p][i].name : i \in 1..Len(deps[p])}

\* as TopoReady, had the yield order ignored the dependency edges
TopoReadyAny(n) == ~Contains(emitted, n)

TopoReady(n) ==
    /\ ~Contains(emitted, n)
    /\ \A d \in NodeDepends(n) \cap Pkgs : Contains(emitted, d)

\* order[name]: the index at which topo.nodes() yielded name
OrderOf(n) == Position(emitted, n) - 1

\* insertion of p into a sequence sorted by order[name], after its equals (stable)
RECURSIVE InsertByOrder(_, _)
InsertByOrder(s, p) ==
    IF s = <<>> THEN <<p>>
    ELSE IF OrderOf(p) < OrderOf(s[1]) THEN <<p>> \o s
    ELSE <<s[1]>> \o InsertByOrder(Tail(s), p)

\* packages.sort_by_key(|p| order[p.name])
RECURSIVE SortByOrder(_)
SortByOrder(s) ==
    IF s = <<>> THEN <<>>
    ELSE InsertByOrder(SortByOrder(SubSeq(s, 1, Len(s)-1)), s[Len(s)])

\* as SortedPackages, had the sort key been the reverse of the yield order
SortedPackagesReversed ==
    [i \in 1..Len(packages) |-> SortByOrder(packages)[Len(packages) + 1 - i]]

\* as SortedPackages, had packages.sort_by_key been left out
SortedPackagesUnsorted == packages

SortedPackages == SortByOrder(packages)

(***************************************************************************)
(* visit_package (main.rs 241-286): the scope decision.                    *)
(***************************************************************************)
IsLeafFeature(p, f) ==
    \/ Contains(Ctx.unqualified_leaf_features, f)
    \/ Contains(Ctx.qualified_leaf_features, <<p, f>>)

HasLeafFeature(p) == \E i \in 1..Len(features[p]) : IsLeafFeature(p, features[p][i])

ReferencedLeafFeatures(p) ==
    SelectSeq(features[p], LAMBDA f : IsLeafFeature(p, f) /\ f # Ctx.feature_name)

\* as DependsOnInScope, had the loop over the dependencies stopped after the first
DependsOnInScopeFirstOnly(p, scope) == Len(deps[p]) > 0 /\ deps[p][1].name \in scope

DependsOnInScope(p, scope) == \E i \in 1..Len(deps[p]) : deps[p][i].name \in scope

IsInScope(p, scope) == HasLeafFeature(p) \/ DependsOnInScope(p, scope)

(***************************************************************************)
(* visit_aspect_feature (main.rs 288-467): the change plan.                *)
(***************************************************************************)
NonOptionalDepSpec(d) == d \o S_slash \o Ctx.feature_name
OptionalDepSpec(d) == d \o S_qslash \o Ctx.feature_name

\* as InScopeDeps, had the in_scope_packages test been left out
InScopeDepsAll(p, scope) == deps[p]

InScopeDeps(p, scope) == SelectSeq(deps[p], LAMBDA d : d.name \in scope)

DepSpecToAdd(d) ==
    IF d.optional THEN OptionalDepSpec(d.name) ELSE NonOptionalDepSpec(d.name)

DepSpecToRemove(d) ==
    IF d.optional THEN NonOptionalDepSpec(d.name) ELSE OptionalDepSpec(d.name)

\* as ShouldInclude, had the special case for dep references been left out
ShouldIncludeAlways(p, param) == TRUE

ShouldInclude(p, param) ==
    LET sp == SplitOnce(param, Ch_colon)
    IN  IF sp[1] /\ sp[2] = S_dep
        THEN \E i \in 1..Len(deps[p]) : deps[p][i].name = sp[3]
        ELSE TRUE

ParamsToAdd(p, scope) ==
    LET ds == InScopeDeps(p, scope)
    IN  [i \in 1..Len(ds) |-> DepSpecToAdd(ds[i])]
        \o SelectSeq(Ctx.extra_feature_params \o ReferencedLeafFeatures(p),
                     LAMBDA q : ShouldInclude(p, q))

ParamsToRemove(p, scope) ==
    LET ds == InScopeDeps(p, scope)
    IN  [i \in 1..Len(ds) |-> DepSpecToRemove(ds[i])]

\* dry-run / verify: the array the manifest literally holds (main.rs 357-370)
CurrentParams(p) == IF doc[p].present THEN doc[p].arr ELSE <<>>

\* param_indices_to_remove.sort_by(|a, b| b.cmp(a))
RECURSIVE InsertDesc(_, _)
InsertDesc(s, i) ==
    IF s = <<>> THEN <<i>>
    ELSE IF i > s[1] THEN <<i>> \o s
    ELSE <<s[1]>> \o InsertDesc(Tail(s), i)

RECURSIVE SortDesc(_)
SortDesc(s) ==
    IF s = <<>> THEN <<>>
    ELSE InsertDesc(SortDesc(SubSeq(s, 1, Len(s)-1)), s[Len(s)])

\* for idx in param_indices_to_remove { feature_arr.remove(idx) }: Vec::remove
\* panics on an index past the end
RECURSIVE RemoveIndices(_, _)
RemoveIndices(arr, idxs) ==
    IF idxs = <<>> THEN [panic |-> FALSE, arr |-> arr]
    ELSE IF idxs[1] > Len(arr) THEN [panic |-> TRUE, arr |-> arr]
    ELSE RemoveIndices(RemoveAt(arr, idxs[1]), Tail(idxs))

\* the apply branch (main.rs 402-461) on the array arr (empty when just created)
ApplyEdit(arr, add, remove, sort) ==
    LET toAdd == RetainNotIn(add, arr)
        found == RetainIn(remove, arr)
        indices == [i \in 1..Len(found) |-> Position(arr, found[i])]
        removal == RemoveIndices(arr, SortDesc(indices))
        added == removal.arr \o (IF sort THEN toAdd ELSE SortParams(toAdd))
    IN  [panic |-> removal.panic,
         add |-> toAdd,
         remove |-> found,
         arr |-> IF sort THEN SortParams(added) ELSE added]

(***************************************************************************)
(* Initial states: the workspaces, manifests and command lines examined.   *)
(***************************************************************************)
Absent == [present |-> FALSE, arr |-> <<>>]
Present(a) == [present |-> TRUE, arr |-> a]

NoPlan == [visited |-> FALSE, wanted |-> <<>>, add |-> <<>>, remove |-> <<>>]
NoPrev == [ran |-> FALSE, args |-> <<>>, outcome |-> "none"]

Modes == {[dry_run |-> FALSE, verify |-> FALSE],
          [dry_run |-> TRUE, verify |-> FALSE],
          [dry_run |-> FALSE, verify |-> TRUE]}

Args(n, leaf, extra, mode, nosort) ==
    [name |-> n, leaf_features |-> leaf, add_feature_params |-> extra,
     dry_run |-> mode.dry_run, verify |-> mode.verify, no_sort |-> nosort]

\* the state of an invocation before its first step
Fresh ==
    /\ packages = InputOrder
    /\ emitted = <<>>
    /\ pc = "topo"
    /\ idx = 1
    /\ in_scope_packages = {}
    /\ has_changes = FALSE
    /\ outcome = "none"
    /\ written = {}
    /\ reads = {}
    /\ plan = [p \in Pkgs |-> NoPlan]

StrictlyIncreasing(s) == \A i \in 1..(Len(s)-1) : StrLess(s[i], s[i+1])

\* every dependency graph over the members and one crate outside the workspace
\* (no package depends on itself), with the leaf features spread over the members
GraphDepLists(p) ==
    {[i \in 1..Len(s) |-> Dep(s[i], FALSE)] :
        s \in {t \in SeqsUpTo((Pkgs \ {p}) \cup {S_e}, MaxDeps) : StrictlyIncreasing(t)}}

InitGraphs ==
    /\ args \in {Args(SomeName(S_x), <<S_y, S_a \o S_slash \o S_x>>, <<>>, m, FALSE) :
                    m \in {mm \in Modes : ~mm.dry_run}}
    /\ deps \in [Pkgs -> UNION {GraphDepLists(p) : p \in Pkgs}]
    /\ \A p \in Pkgs : deps[p] \in GraphDepLists(p)
    /\ features \in [Pkgs -> {<<>>, <<S_x>>, <<S_y>>}]
    /\ features[S_b] # <<S_x>>
    /\ features[S_c] # <<S_y>>
    /\ doc = [p \in Pkgs |-> IF Contains(features[p], S_x) THEN Present(<<>>) ELSE Absent]

\* one chain a <- b <- c with every dependency list of c (a dependency may be
\* listed more than once: as a normal and a dev-dependency, or per target) and
\* every aspect array of c without a repeated entry; --no-sort is combined with
\* the modes that can reach the apply branch, the only reader of ctx.sort
DepChoices == {Dep(S_a, FALSE), Dep(S_a, TRUE), Dep(S_b, FALSE)}
ArrChoices == {S_a \o S_slash \o S_x, S_a \o S_qslash \o S_x, S_depcolon \o S_a, S_z}

\* a manifest is written by hand or by an earlier run: no entry twice
NoRepeat(a) == \A i, j \in 1..Len(a) : a[i] = a[j] => i = j

InitManifests ==
    /\ args \in {Args(NoName, <<S_a \o S_slash \o S_x>>, e, m, n) :
                    e \in {<<>>, <<S_k, S_depcolon \o S_a>>}, m \in Modes, n \in BOOLEAN}
    /\ args.dry_run => ~args.no_sort
    /\ \E dc \in SeqsUpTo(DepChoices, MaxDeps) :
          deps = [p \in Pkgs |-> IF p = S_a THEN <<>>
                                 ELSE IF p = S_b THEN <<Dep(S_a, FALSE)>> ELSE dc]
    /\ \E dc \in {Absent} \cup {Present(a) : a \in {t \in SeqsUpTo(ArrChoices, MaxArr) : NoRepeat(t)}} :
          doc = [p \in Pkgs |-> IF p = S_a THEN Present(<<>>)
                                ELSE IF p = S_b THEN Present(<<S_a \o S_slash \o S_x>>)
                                ELSE dc]
    /\ features = [p \in Pkgs |-> IF doc[p].present THEN <<S_x>> ELSE <<>>]

\* the chain again in apply mode, with every list of --add-feature-param
\* arguments (an argument may be given twice, or name a leaf feature), c depending
\* on members and on the outside crate e, and c declaring the unqualified leaf
\* feature y or not
ExtraChoices == {S_k, S_y, S_depcolon \o S_a, S_depcolon \o S_e}
ExtraDepLists == {<<>>, <<Dep(S_e, TRUE)>>, <<Dep(S_b, FALSE)>>,
                  <<Dep(S_b, FALSE), Dep(S_e, TRUE)>>, <<Dep(S_a, FALSE), Dep(S_e, FALSE)>>}

InitExtras ==
    /\ args \in {Args(SomeName(S_x), <<S_y, S_a \o S_slash \o S_x>>, e,
                        [dry_run |-> FALSE, verify |-> FALSE], FALSE) :
                    e \in SeqsUpTo(ExtraChoices, MaxExtra)}
    /\ \E dc \in ExtraDepLists :
          deps = [p \in Pkgs |-> IF p = S_a THEN <<>>
                                 ELSE IF p = S_b THEN <<Dep(S_a, FALSE)>> ELSE dc]
    /\ \E fc \in {<<>>, <<S_y>>} :
          features = [p \in Pkgs |-> IF p = S_a THEN <<S_x>> ELSE IF p = S_b THEN <<>> ELSE fc]
    /\ doc = [p \in Pkgs |-> IF p = S_a THEN Present(<<>>) ELSE Absent]

\* a command line create_context rejects
InitBadArgs ==
    /\ args = Args(NoName, <<S_y, S_a \o S_slash \o S_x>>, <<>>, [dry_run |-> FALSE, verify |-> FALSE], FALSE)
    /\ deps = [p \in Pkgs |-> <<>>]
    /\ features = [p \in Pkgs |-> <<>>]
    /\ doc = [p \in Pkgs |-> Absent]

Init ==
    /\ InitGraphs \/ InitManifests \/ InitExtras \/ InitBadArgs
    /\ Fresh
    /\ run = 1
    /\ prev = NoPrev
    /\ doc0 = doc

(***************************************************************************)
(* run_feature_aspect (main.rs 137-155), step by step.                     *)
(***************************************************************************)
Finished(o) ==
    /\ pc' = "done"
    /\ outcome' = o

\* topo.nodes() yields one more node
TopoNext ==
    /\ pc = "topo"
    /\ \E n \in Pkgs :
          /\ TopoReady(n)
          /\ emitted' = Append(emitted, n)
    /\ UNCHANGED <<args, deps, features, doc, packages, pc, idx, in_scope_packages,
                   has_changes, outcome, written, reads, plan, run, prev, doc0>>

\* as TopoCycle, had the Err items been dropped (filter_map(Result::ok)) and the
\* run gone on with the nodes yielded so far
TopoCycleIgnored ==
    /\ pc = "topo"
    /\ Range(emitted) # Pkgs
    /\ \A n \in Pkgs : ~TopoReady(n)
    /\ packages' = SortedPackages
    /\ pc' = "visit"
    /\ UNCHANGED <<args, deps, features, doc, emitted, idx, in_scope_packages,
                   has_changes, outcome, written, reads, plan, run, prev, doc0>>

\* topo.nodes() yields Err: the collect fails and `?` returns DEP_CYCLE_ERR
TopoCycle ==
    /\ pc = "topo"
    /\ Range(emitted) # Pkgs
    /\ \A n \in Pkgs : ~TopoReady(n)
    /\ Finished("cycle")
    /\ UNCHANGED <<args, deps, features, doc, packages, emitted, idx, in_scope_packages,
                   has_changes, written, reads, plan, run, prev, doc0>>

\* the iterator is exhausted: packages.sort_by_key, then create_context
TopoSorted ==
    /\ pc = "topo"
    /\ Range(emitted) = Pkgs
    /\ packages' = SortedPackages
    /\ IF Ctx.ok
       THEN pc' = "visit" /\ UNCHANGED outcome
       ELSE Finished("config_error")
    /\ UNCHANGED <<args, deps, features, doc, emitted, idx, in_scope_packages,
                   has_changes, written, reads, plan, run, prev, doc0>>

\* visit_package of a package that is not in scope
VisitOutOfScope ==
    /\ pc = "visit"
    /\ idx <= Len(packages)
    /\ ~IsInScope(packages[idx], in_scope_packages)
    /\ idx' = idx + 1
    /\ UNCHANGED <<args, deps, features, doc, packages, emitted, pc, in_scope_packages,
                   has_changes, outcome, written, reads, plan, run, prev, doc0>>

\* visit_package of an in-scope package whose manifest cannot be read
VisitReadError ==
    /\ pc = "visit"
    /\ idx <= Len(packages)
    /\ IsInScope(packages[idx], in_scope_packages)
    /\ in_scope_packages' = in_scope_packages \cup {packages[idx]}
    /\ Finished("io_error")
    /\ UNCHANGED <<args, deps, features, doc, packages, emitted, idx,
                   has_changes, written, reads, plan, run, prev, doc0>>

\* as VisitReport, had --verify bailed at the first package with a pending change
VisitReportShortCircuit ==
    /\ pc = "visit"
    /\ idx <= Len(packages)
    /\ Ctx.dry_run \/ Ctx.verify
    /\ LET p == packages[idx]
           scope == in_scope_packages \cup {p}
           add == RetainNotIn(ParamsToAdd(p, scope), CurrentParams(p))
           remove == RetainIn(ParamsToRemove(p, scope), CurrentParams(p))
       IN  /\ IsInScope(p, in_scope_packages)
           /\ in_scope_packages' = scope
           /\ reads' = reads \cup {p}
           /\ plan' = [plan EXCEPT ![p] = [visited |-> TRUE, wanted |-> ParamsToAdd(p, scope),
                                            add |-> add, remove |-> remove]]
           /\ has_changes' = (has_changes \/ add # <<>> \/ remove # <<>>)
           /\ IF Ctx.verify /\ (add # <<>> \/ remove # <<>>)
              THEN Finished("verify_failed") /\ UNCHANGED idx
              ELSE idx' = idx + 1 /\ UNCHANGED <<pc, outcome>>
    /\ UNCHANGED <<args, deps, features, doc, packages, emitted, written, run, prev, doc0>>

\* visit_package of an in-scope package with --dry-run or --verify
VisitReport ==
    /\ pc = "visit"
    /\ idx <= Len(packages)
    /\ Ctx.dry_run \/ Ctx.verify
    /\ LET p == packages[idx]
           scope == in_scope_packages \cup {p}
           add == RetainNotIn(ParamsToAdd(p, scope), CurrentParams(p))
           remove == RetainIn(ParamsToRemove(p, scope), CurrentParams(p))
       IN  /\ IsInScope(p, in_scope_packages)
           /\ in_scope_packages' = scope
           /\ reads' = reads \cup {p}
           /\ plan' = [plan EXCEPT ![p] = [visited |-> TRUE, wanted |-> ParamsToAdd(p, scope),
                                            add |-> add, remove |-> remove]]
           /\ has_changes' = (has_changes \/ add # <<>> \/ remove # <<>>)
    /\ idx' = idx + 1
    /\ UNCHANGED <<args, deps, features, doc, packages, emitted, pc,
                   outcome, written, run, prev, doc0>>

\* visit_package of an in-scope package without --dry-run and --verify
VisitApply ==
    /\ pc = "visit"
    /\ idx <= Len(packages)
    /\ ~(Ctx.dry_run \/ Ctx.verify)
    /\ LET p == packages[idx]
           scope == in_scope_packages \cup {p}
           e == ApplyEdit(CurrentParams(p), ParamsToAdd(p, scope),
                          ParamsToRemove(p, scope), Ctx.sort)
       IN  /\ IsInScope(p, in_scope_packages)
           /\ in_scope_packages' = scope
           /\ reads' = reads \cup {p}
           /\ plan' = [plan EXCEPT ![p] = [visited |-> TRUE, wanted |-> ParamsToAdd(p, scope),
                                            add |-> e.add, remove |-> e.remove]]
           /\ IF e.panic
              THEN /\ Finished("panic")
                   /\ UNCHANGED <<doc, written, idx>>
              ELSE /\ doc' = [doc EXCEPT ![p] = Present(e.arr)]
                   /\ written' = written \cup {p}
                   /\ idx' = idx + 1
                   /\ UNCHANGED <<pc, outcome>>
    /\ UNCHANGED <<args, deps, features, packages, emitted, has_changes, run, prev, doc0>>

\* as Finish, had the bail been taken for --dry-run as well
FinishFailsOnDryRun ==
    /\ pc = "visit"
    /\ idx > Len(packages)
    /\ Finished(IF (Ctx.verify \/ Ctx.dry_run) /\ has_changes THEN "verify_failed" ELSE "ok")
    /\ UNCHANGED <<args, deps, features, doc, packages, emitted, idx, in_scope_packages,
                   has_changes, written, reads, plan, run, prev, doc0>>

\* the loop is over: bail! when --verify was passed and changes were detected
Finish ==
    /\ pc = "visit"
    /\ idx > Len(packages)
    /\ Finished(IF Ctx.verify /\ has_changes THEN "verify_failed" ELSE "ok")
    /\ UNCHANGED <<args, deps, features, doc, packages, emitted, idx, in_scope_packages,
                   has_changes, written, reads, plan, run, prev, doc0>>

\* cargo metadata on the manifests as they now are: the aspect feature is one of
\* package.features once its array exists
RECURSIVE InsertKey(_, _)
InsertKey(s, k) ==
    IF s = <<>> THEN <<k>>
    ELSE IF k = s[1] THEN s
    ELSE IF StrLess(k, s[1]) THEN <<k>> \o s
    ELSE <<s[1]>> \o InsertKey(Tail(s), k)

\* after an apply or a verify invocation has ended, the command is invoked once
\* more on the same workspace, to apply
Rerun ==
    /\ pc = "done"
    /\ run = 1
    /\ outcome \in {"ok", "verify_failed"}
    /\ ~Ctx.dry_run
    /\ run' = 2
    /\ prev' = [ran |-> TRUE, args |-> args, outcome |-> outcome]
    /\ args' = [args EXCEPT !.dry_run = FALSE, !.verify = FALSE]
    /\ features' = [p \in Pkgs |-> IF doc[p].present
                                   THEN InsertKey(features[p], Ctx.feature_name)
                                   ELSE features[p]]
    /\ doc0' = doc
    /\ packages' = InputOrder
    /\ emitted' = <<>>
    /\ pc' = "topo"
    /\ idx' = 1
    /\ in_scope_packages' = {}
    /\ has_changes' = FALSE
    /\ outcome' = "none"
    /\ written' = {}
    /\ reads' = {}
    /\ plan' = [p \in Pkgs |-> NoPlan]
    /\ UNCHANGED <<deps, doc>>

Next ==
    \/ TopoNext
    \/ TopoCycle
    \/ TopoSorted
    \/ VisitOutOfScope
    \/ VisitReadError
    \/ VisitReport
    \/ VisitApply
    \/ Finish
    \/ Rerun

Spec == Init /\ [][Next]_vars

(***************************************************************************)
(* What the claims speak of, stated over the workspace and the manifests   *)
(* rather than over the steps of the run.                                  *)
(***************************************************************************)
WsDeps(p) == NodeDepends(p) \cap Pkgs

\* packages that declare a leaf capability
LeafPkgs ==
    LET unqualified == Range(Ctx.unqualified_leaf_features)
        qualified == Range(Ctx.qualified_leaf_features)
    IN  {p \in Pkgs : \E f \in Range(features[p]) :
            f \in unqualified \/ <<p, f>> \in qualified}

\* S and every package that depends on a member of S, directly or transitively
RECURSIVE Dependents(_)
Dependents(S) ==
    LET T == S \cup {p \in Pkgs : WsDeps(p) \cap S # {}}
    IN  IF T = S THEN S ELSE Dependents(T)

ExpectedScope == Dependents(LeafPkgs)

\* S and every member that a member of S depends on, directly or transitively
RECURSIVE Dependencies(_)
Dependencies(S) ==
    LET T == S \cup UNION {WsDeps(p) : p \in S}
    IN  IF T = S THEN S ELSE Dependencies(T)

HasCycle == \E p \in Pkgs : p \in Dependencies(WsDeps(p))

ApplyMode == ~args.dry_run /\ ~args.verify

\* the forward spec of the shape that matches the optionality of d, and the other
RightShape(d) ==
    IF d.optional THEN d.name \o <<63, 47>> \o Ctx.feature_name
    ELSE d.name \o <<47>> \o Ctx.feature_name

WrongShape(d) ==
    IF d.optional THEN d.name \o <<47>> \o Ctx.feature_name
    ELSE d.name \o <<63, 47>> \o Ctx.feature_name

InScopeDepEntries(p) == {d \in Range(deps[p]) : d.name \in ExpectedScope}

IsDepToken(q) == Len(q) >= 4 /\ q[1] = 100 /\ q[2] = 101 /\ q[3] = 112 /\ q[4] = 58

AddSet(p) ==
    {RightShape(d) : d \in InScopeDepEntries(p)}
    \cup {q \in Range(Ctx.extra_feature_params)
                \cup {f \in Range(features[p]) :
                        /\ f # Ctx.feature_name
                        /\ \/ f \in Range(Ctx.unqualified_leaf_features)
                           \/ <<p, f>> \in Range(Ctx.qualified_leaf_features)} :
            IsDepToken(q) => SubSeq(q, 5, Len(q)) \in NodeDepends(p)}

RemoveSet(p) == {WrongShape(d) : d \in InScopeDepEntries(p)}

\* the array of p as the manifests in m hold it
ArrayIn(m, p) == IF m[p].present THEN m[p].arr ELSE <<>>

\* p has a non-empty filtered add-set or remove-set against the manifests in m
Pending(m, p) ==
    /\ p \in ExpectedScope
    /\ \/ AddSet(p) \ Range(ArrayIn(m, p)) # {}
       \/ RemoveSet(p) \cap Range(ArrayIn(m, p)) # {}

TraversalComplete == pc = "done" /\ idx = Len(packages) + 1

(***************************************************************************)
(* The claims.                                                             *)
(***************************************************************************)

\* C1: after a complete run the set of in-scope packages is exactly the set of
\* packages that declare a leaf capability or depend, directly or transitively
\* through workspace members, on such a package.
C1_ScopeIsDependentsOfLeaves ==
    (TraversalComplete /\ outcome \in {"ok", "verify_failed"})
        => in_scope_packages = ExpectedScope

\* a complete run that put in scope a package that declares no leaf capability
\* and has no leaf package among its direct dependencies
C1_Witness ==
    /\ TraversalComplete
    /\ outcome = "ok"
    /\ \E p \in in_scope_packages : p \notin LeafPkgs /\ WsDeps(p) \cap LeafPkgs = {}

\* C2: once topo_sort_packages has succeeded, packages is a permutation of the
\* input packages in which every package comes after each of its dependencies
\* that is a workspace member.
C2_TopoOrderValid ==
    (pc \in {"visit", "done"} /\ outcome # "cycle")
        => /\ Len(packages) = Len(InputOrder)
           /\ Range(packages) = Range(InputOrder)
           /\ \A i, j \in 1..Len(packages) :
                 packages[j] \in NodeDepends(packages[i]) => j < i

\* the sort succeeded, moved a package, and one package depends on a member and
\* on a crate outside the workspace
C2_Witness ==
    /\ pc = "visit"
    /\ packages # InputOrder
    /\ \E p \in Pkgs : S_e \in NodeDepends(p) /\ WsDeps(p) # {}

\* C8: with --verify a pending change never stops the traversal: the run fails
\* with the verify error only after every package was visited, and a run that
\* meets no other error fails if and only if some package has a non-empty
\* filtered add-set or remove-set.
C8_VerifyVisitsAllThenDecides ==
    (args.verify /\ pc = "done" /\ outcome \notin {"cycle", "config_error", "io_error"})
        => /\ idx = Len(packages) + 1
           /\ \A p \in ExpectedScope : plan[p].visited
           /\ outcome = IF \E p \in Pkgs : Pending(doc, p) THEN "verify_failed" ELSE "ok"

\* a verify run that failed, whose first pending change was found before the
\* last package of the order was visited
C8_Witness ==
    /\ args.verify
    /\ pc = "done"
    /\ outcome = "verify_failed"
    /\ \E i \in 1..(Len(packages)-1) :
          /\ plan[packages[i]].visited
          /\ plan[packages[i]].add # <<>>
          /\ plan[packages[Len(packages)]].visited

\* C9: with --dry-run and without --verify no manifest is ever written, and a
\* run whose traversal completes ends in success, pending changes or not.
C9_DryRunWritesNothingAndSucceeds ==
    (args.dry_run /\ ~args.verify)
        => /\ written = {}
           /\ doc = doc0
           /\ outcome # "verify_failed"
           /\ TraversalComplete => outcome = "ok"

\* a dry run that detected pending changes and ended in success
C9_Witness ==
    /\ args.dry_run
    /\ ~args.verify
    /\ TraversalComplete
    /\ has_changes
    /\ \E p \in Pkgs : plan[p].visited /\ plan[p].remove # <<>>
    /\ outcome = "ok"

\* C10: when the dependency graph has a cycle among workspace members the run
\* fails with the cycle error before any package is visited: packages keeps its
\* input order, no scope decision is made, no manifest is read or written.
C10_CycleFailsBeforeAnyVisit ==
    HasCycle
        => /\ pc # "visit"
           /\ pc = "done" => outcome = "cycle"
           /\ packages = InputOrder
           /\ idx = 1
           /\ in_scope_packages = {}
           /\ reads = {}
           /\ written = {}
           /\ doc = doc0
           /\ \A p \in Pkgs : ~plan[p].visited

\* the run failed with the cycle error after the iterator had yielded a node
\* that is not first in the input order
C10_Witness ==
    /\ pc = "done"
    /\ outcome = "cycle"
    /\ emitted # <<>>
    /\ emitted[1] # InputOrder[1]

\* C3: after an apply run has completed, a second run over the resulting
\* manifests with the same configuration computes an empty add-set and an empty
\* remove-set for every package.
C3_ApplyIsFixedPoint ==
    (run = 2 /\ prev.ran /\ prev.args = args)
        => \A p \in Pkgs : plan[p].add = <<>> /\ plan[p].remove = <<>>

\* C4: when a verify run detects no pending change, an apply run on the same
\* workspace leaves every manifest as it was (the aspect array, its order and its
\* existence included), and when the verify run detects a change the apply run
\* changes some manifest.
C4_VerifyFailsIffApplyChanges ==
    (run = 2 /\ prev.ran /\ prev.args.verify /\ TraversalComplete /\ outcome = "ok")
        => /\ prev.outcome = "ok" => doc = doc0
           /\ prev.outcome = "verify_failed" => doc # doc0

\* C5: in apply mode a package whose filtered add-set and remove-set are both
\* empty does not have its manifest written.
C5_NoWriteWithoutChange ==
    \A p \in Pkgs :
        (ApplyMode /\ plan[p].visited /\ plan[p].add = <<>> /\ plan[p].remove = <<>>)
            => p \notin written

\* C6: after an apply-mode visit of an in-scope package, for every dependency of
\* it that is in scope the aspect array holds the forward spec of the shape that
\* matches the dependency's optionality and does not hold the other shape.
C6_RightShapeOnly ==
    \A p \in Pkgs :
        (ApplyMode /\ p \in written)
            => \A d \in Range(deps[p]) :
                  d.name \in in_scope_packages
                      => /\ RightShape(d) \in Range(doc[p].arr)
                         /\ WrongShape(d) \notin Range(doc[p].arr)

\* the entries of s that satisfy keep, in order
Filter(s, keep(_)) == SelectSeq(s, keep)

\* C7: with --no-sort an apply-mode visit leaves every prior entry outside the
\* remove-set in place and in its prior relative order, deletes the remove-set's
\* entries, and appends the add-set entries that were not present, ordered among
\* themselves (dep: tokens first, then lexicographically).
C7_NoSortEditIsExact ==
    \A p \in Pkgs :
        (ApplyMode /\ args.no_sort /\ p \in written)
            => LET prior == ArrayIn(doc0, p)
                   now == doc[p].arr
                   new == Filter(now, LAMBDA e : e \notin Range(prior))
                   kept == Filter(now, LAMBDA e : e \in Range(prior))
               IN  /\ Filter(kept, LAMBDA e : e \notin RemoveSet(p))
                        = Filter(prior, LAMBDA e : e \notin RemoveSet(p))
                   /\ \A e \in RemoveSet(p) \ AddSet(p) : e \notin Range(now)
                   /\ now = kept \o new
                   /\ Range(new) = AddSet(p) \ Range(prior)
                   /\ \A i, j \in 1..Len(new) : i < j => ~SortLess(new[j], new[i])

\* the extra parameters and the referenced leaf features of p
ExtraTokens(p) ==
    Range(Ctx.extra_feature_params)
    \cup {f \in Range(features[p]) :
            /\ f # Ctx.feature_name
            /\ \/ f \in Range(Ctx.unqualified_leaf_features)
               \/ <<p, f>> \in Range(Ctx.qualified_leaf_features)}

\* C11: for every in-scope package, an extra parameter or referenced leaf
\* feature of the shape dep:<name> is in the package's add-set only if the
\* package declares a dependency named <name>, and a token of any other shape is
\* always in the add-set.
C11_DepTokensOnlyForDeclaredDeps ==
    \A p \in Pkgs :
        plan[p].visited
            => \A q \in ExtraTokens(p) :
                  IF IsDepToken(q)
                  THEN q \in Range(plan[p].wanted) => SubSeq(q, 5, Len(q)) \in NodeDepends(p)
                  ELSE q \in Range(plan[p].wanted)

\* an in-scope package was given dep:e, naming the outside crate it depends on,
\* and another in-scope package that does not depend on e was not
C11_Witness ==
    \E p, q \in Pkgs :
        /\ plan[p].visited
        /\ plan[q].visited
        /\ S_depcolon \o S_e \in Range(Ctx.extra_feature_params)
        /\ S_e \in NodeDepends(p)
        /\ S_depcolon \o S_e \in Range(plan[p].wanted)
        /\ S_e \notin NodeDepends(q)
        /\ S_depcolon \o S_e \notin Range(plan[q].wanted)
        /\ S_k \in Range(plan[q].wanted)

\* a is at most b in the lexicographic order of byte strings: a is a prefix of b,
\* or at the first position where they differ a has the smaller byte
LexLeq(a, b) ==
    \E k \in 0..Len(a) :
        /\ k <= Len(b)
        /\ \A i \in 1..k : a[i] = b[i]
        /\ \/ k = Len(a)
           \/ k < Len(b) /\ a[k + 1] < b[k + 1]

\* C12: with the sort policy enabled, after an apply-mode visit the whole aspect
\* array has every dep:-prefixed entry before every other entry, and each of
\* the two groups is in ascending lexicographic order.
C12_SortedDepFirst ==
    (ApplyMode /\ ~args.no_sort)
        => \A p \in written :
              \A i, j \in 1..Len(doc[p].arr) :
                  i < j => /\ IsDepToken(doc[p].arr[j]) => IsDepToken(doc[p].arr[i])
                           /\ IsDepToken(doc[p].arr[i]) = IsDepToken(doc[p].arr[j])
                                  => LexLeq(doc[p].arr[i], doc[p].arr[j])

\* a visit left a dep: entry and two other entries in an array whose entries
\* from before the visit were out of order
C12_Witness ==
    /\ ApplyMode
    /\ ~args.no_sort
    /\ \E p \in written :
          /\ \E i, j \in 1..Len(ArrayIn(doc0, p)) :
                /\ i < j
                /\ ~LexLeq(doc0[p].arr[i], doc0[p].arr[j])
                /\ doc0[p].arr[i] \in Range(doc[p].arr)
                /\ doc0[p].arr[j] \in Range(doc[p].arr)
          /\ \E q \in Range(doc[p].arr) : IsDepToken(q)
          /\ Cardinality({q \in Range(doc[p].arr) : ~IsDepToken(q)}) >= 2
          /\ plan[p].add # <<>>

\* the packages whose scope has been decided: those before position idx
Decided == {packages[k] : k \in 1..(idx - 1)}

\* the step is a call of visit_package for packages[idx]: it returns Ok and the
\* loop moves on, or it returns Err and the run ends
IsVisitStep ==
    /\ pc = "visit"
    /\ idx <= Len(packages)
    /\ idx' = idx + 1 \/ pc' = "done"

\* C13: during the traversal of one run the scope set only grows, each
\* package's scope is decided exactly once, and at the moment a package is
\* decided every workspace-member dependency of it has already been decided.
C13_ScopeGrowsDepsDecidedFirst ==
    [][run' = run
          => /\ in_scope_packages \subseteq in_scope_packages'
             /\ idx' \in {idx, idx + 1}
             /\ IF IsVisitStep
                THEN /\ in_scope_packages' \ in_scope_packages \subseteq {packages[idx]}
                     /\ packages' = packages
                     /\ \A k \in 1..Len(packages) : packages[k] = packages[idx] => k = idx
                     /\ WsDeps(packages[idx]) \subseteq Decided
                ELSE in_scope_packages' = in_scope_packages
             /\ (pc' = "done" /\ idx' = Len(packages') + 1)
                    => /\ Range(packages') = Pkgs
                       /\ Len(packages') = Cardinality(Pkgs)]_vars

\* two packages have been decided in an order other than the input order, the
\* second depends on the first, and both are in scope
C13_Witness ==
    /\ pc = "visit"
    /\ idx = 3
    /\ packages # InputOrder
    /\ packages[1] \in WsDeps(packages[2])
    /\ {packages[1], packages[2]} \subseteq in_scope_packages

\* the change plan of p as a function of the inputs of the run alone (the
\* command line, the dependency lists, the feature tables, the manifests the
\* run started from, and a scope set), with no reference to the order of the
\* traversal
PlanOfInputs(p, scope) ==
    LET wanted == ParamsToAdd(p, scope)
    IN  [visited |-> TRUE,
         wanted |-> wanted,
         add |-> RetainNotIn(wanted, ArrayIn(doc0, p)),
         remove |-> RetainIn(ParamsToRemove(p, scope), ArrayIn(doc0, p))]

\* s lists every package after its workspace-member dependencies
IsTopoOrder(s) ==
    \A i \in 1..Len(s) : WsDeps(s[i]) \subseteq {s[k] : k \in 1..(i - 1)}

\* C14: the scope set and every package's add-set and remove-set do not depend
\* on how ties are broken in the topological order: under every order the run
\* can take, each visited package is one the inputs put in scope, its plan is
\* the one the inputs determine, and a completed traversal ends with the scope
\* set the inputs determine.
C14_PlansIndependentOfTieBreak ==
    pc # "topo"
        => LET scope == ExpectedScope
           IN  /\ in_scope_packages \subseteq scope
               /\ \A p \in Pkgs :
                     plan[p].visited
                         => p \in in_scope_packages /\ plan[p] = PlanOfInputs(p, scope)
               /\ TraversalComplete
                     => /\ in_scope_packages = scope
                        /\ \A p \in scope : plan[p].visited

\* a traversal completed in an order other than the input order, which is a
\* topological order as well, and it planned a forward spec for a package
C14_Witness ==
    /\ TraversalComplete
    /\ packages # InputOrder
    /\ IsTopoOrder(InputOrder)
    /\ IsTopoOrder(packages)
    /\ \E p \in in_scope_packages :
          \E d \in InScopeDepEntries(p) : RightShape(d) \in Range(plan[p].add)

\* q is <dep>/<aspect> or <dep>?/<aspect> for a non-empty <dep>
IsForwardSpec(q) ==
    LET k == Len(q) - Len(Ctx.feature_name) - 1
    IN  /\ k >= 1
        /\ q[k + 1] = 47
        /\ SubSeq(q, k + 2, Len(q)) = Ctx.feature_name
        /\ q[k] = 63 => k >= 2

\* the <dep> of a forward spec
ForwardTarget(q) ==
    LET k == Len(q) - Len(Ctx.feature_name) - 1
    IN  IF q[k] = 63 THEN SubSeq(q, 1, k - 1) ELSE SubSeq(q, 1, k)

C16_VisitKeepsEntriesDistinct ==
    ApplyMode
        => \A p \in written :
              NoRepeat(ArrayIn(doc0, p)) => NoRepeat(doc[p].arr)

=============================================================================
